---- MODULE Spec2Model ----
(***************************************************************************)
(* The Ngram kernel of onnxruntime/contrib_ops/cpu/ngram.cc: the           *)
(* constructor that validates the attributes and builds the n-gram set,    *)
(* and Compute, which scans an input tensor for the n-grams of the set,    *)
(* counts the hits and encodes the counts as TF, IDF or TFIDF.             *)
(***************************************************************************)
EXTENDS Integers, Sequences, FiniteSets, TLC

VARIABLES info, impl, calls

vars == <<info, impl, calls>>

(***************************************************************************)
(* Bounds of the model.                                                    *)
(***************************************************************************)
\* tokens are 1..MaxToken (int64 pool) and the first MaxToken letters (string pool)
MaxToken == 2
\* longest pool_int64s / pool_strings attribute
MaxPool == 4
\* largest number of elements of an input tensor
MaxInput == 3
\* largest weight value
MaxWeight == 2
\* longest n-gram: the largest M and N, the longest ngram_counts
MaxLen == 2
\* largest S
MaxSkip == 1
\* largest value in ngram_indexes
MaxSlot == 3

(***************************************************************************)
(* Tokens.  A read outside a buffer yields a value the program does not    *)
(* control: IntGarbage and StrGarbage stand for "anything else".           *)
(***************************************************************************)
Letters == <<"a", "b", "c", "d", "e">>

IntTokens == 1..MaxToken

StrTokens == {Letters[i] : i \in 1..MaxToken}

IntGarbage == 0

StrGarbage == "?"

SeqsUpTo(S, n) == UNION {[1..k -> S] : k \in 0..n}

Range(s) == {s[k] : k \in 1..Len(s)}

Max(a, b) == IF a >= b THEN a ELSE b

(***************************************************************************)
(* size_t.  The code converts the int64 attribute values to size_t, which  *)
(* is 64 bits wide.  TLC's integers are 32 bits wide, so the model keeps   *)
(* the wrap-around of the conversion with a narrower modulus, still far    *)
(* above every offset and size the model draws.                            *)
(***************************************************************************)
SizeTModulus == 2^16

\* the offsets compared as the signed values they are given as
ToSizeTSigned(x) == x

ToSizeT(x) == x % SizeTModulus

(***************************************************************************)
(* NGramItem<T>: id_ and items_.  operator== compares the items_ only.     *)
(* The int64 specialisation compares the vectors; the string one compares  *)
(* the sizes and then the strings one by one.                              *)
(***************************************************************************)
NGramItem(id, items) == [id |-> id, items |-> items]

\* a comparison that ignores the order of the tokens
NGramItemEqUnordered(a, b) ==
    /\ Len(a) = Len(b)
    /\ \A t \in Range(a) \cup Range(b) :
         Cardinality({k \in 1..Len(a) : a[k] = t}) = Cardinality({k \in 1..Len(b) : b[k] = t})

NGramItemEq(a, b) ==
    /\ Len(a) = Len(b)
    /\ \A k \in 1..Len(a) : a[k] = b[k]

(***************************************************************************)
(* std::unordered_set<NGramItem<T>>.  The hash is a function of items_, so *)
(* equal keys hash alike and the container keeps one element per key:      *)
(* emplace inserts unless an equal key is present, find returns the        *)
(* element with an equal key.                                              *)
(***************************************************************************)
SetEmplace(c, id, items) ==
    IF \E e \in c : NGramItemEq(e.items, items)
    THEN c
    ELSE c \cup {NGramItem(id, items)}

SetFind(c, items) == {e \in c : NGramItemEq(e.items, items)}

\* element k (0-based) of a pool; outside the pool the read is out of bounds
PoolAt(pool, k, garbage) == IF k + 1 \in 1..Len(pool) THEN pool[k + 1] ELSE garbage

(***************************************************************************)
(* Emplace: inserts ngrams chunks of ngram_size tokens starting at first   *)
(* (0-based), giving each the next id, inserted or not.                    *)
(***************************************************************************)
RECURSIVE Emplace(_, _, _, _, _, _, _)
Emplace(pool, garbage, first, ngrams, ngram_size, ngram_id, c) ==
    IF ngrams <= 0
    THEN [c |-> c, ngram_id |-> ngram_id]
    ELSE Emplace(pool, garbage, first + ngram_size, ngrams - 1, ngram_size, ngram_id + 1,
                 SetEmplace(c, ngram_id, [k \in 1..ngram_size |-> PoolAt(pool, first + k - 1, garbage)]))

(***************************************************************************)
(* Ngram::Impl, and what is left when the constructor throws: no object.   *)
(***************************************************************************)
NoImpl(st, what) ==
    [st |-> st, what |-> what, mode_ |-> "kNone", N_ |-> 0, M_ |-> 0, S_ |-> 0, all_ |-> FALSE,
     ngram_counts_ |-> <<>>, ngram_indexes_ |-> <<>>, weights_ |-> <<>>,
     pool_strings_ |-> <<>>, str_set_ |-> {}, int_set_ |-> {}]

ConfigError(what) == NoImpl("ConfigError", what)

ModeOf(mode) ==
    IF mode = "TF" THEN "kTF"
    ELSE IF mode = "IDF" THEN "kIDF"
    ELSE IF mode = "TFIDF" THEN "kTFIDF"
    ELSE "kNone"

\* ONNXRUNTIME_ENFORCE(end_idx >= start_idx && end_idx <= total_items)
SegmentInBounds(start_idx, end_idx, total_items) ==
    end_idx >= start_idx /\ end_idx <= total_items

\* the loop over ngram_counts_; i is 0-based as in the code
RECURSIVE CtorLoop(_, _, _, _, _, _, _)
CtorLoop(ngram_counts, pool_strings, pool_int64s, i, ngram_id, int_set, str_set) ==
    LET total_items == IF pool_strings = <<>> THEN Len(pool_int64s) ELSE Len(pool_strings)
        ngram_size == i + 1
        start_idx == ToSizeT(ngram_counts[i + 1])
        end_idx == IF i + 1 < Len(ngram_counts) THEN ToSizeT(ngram_counts[i + 2]) ELSE total_items
        items == ToSizeT(end_idx - start_idx)
        ngrams == items \div ngram_size
        ints == Emplace(pool_int64s, IntGarbage, start_idx, ngrams, ngram_size, ngram_id, int_set)
        strs == Emplace(pool_strings, StrGarbage, start_idx, ngrams, ngram_size, ngram_id, str_set)
    IN  IF ~(i < Len(ngram_counts))
        THEN [what |-> "", int_set |-> int_set, str_set |-> str_set]
        ELSE IF ~SegmentInBounds(start_idx, end_idx, total_items)
        THEN [what |-> "n-gram counts out of bounds", int_set |-> int_set, str_set |-> str_set]
        ELSE IF ~(items > 0)
        THEN CtorLoop(ngram_counts, pool_strings, pool_int64s, i + 1, ngram_id, int_set, str_set)
        ELSE IF ~(items % ngram_size = 0)
        THEN [what |-> "Number of items must compose whole n-grams", int_set |-> int_set, str_set |-> str_set]
        ELSE IF pool_strings = <<>>
        THEN IF ~(Cardinality(int_set) + ngrams = Cardinality(ints.c))
             THEN [what |-> "pool_int64s duplicate n-grams detected", int_set |-> ints.c, str_set |-> str_set]
             ELSE CtorLoop(ngram_counts, pool_strings, pool_int64s, i + 1, ints.ngram_id, ints.c, str_set)
        ELSE IF ~(Cardinality(str_set) + ngrams = Cardinality(strs.c))
             THEN [what |-> "poll_strings duplicate n-grams detected", int_set |-> int_set, str_set |-> strs.c]
             ELSE CtorLoop(ngram_counts, pool_strings, pool_int64s, i + 1, strs.ngram_id, int_set, strs.c)

(***************************************************************************)
(* Ngram::Ngram(const OpKernelInfo& info).  An attribute of info is        *)
(* [ok, v]: the Status of GetAttr/GetAttrs and the value read.  The        *)
(* ONNXRUNTIME_ENFORCEs are taken in the order of the code; the first that *)
(* fails throws, and the kernel does not exist.                            *)
(***************************************************************************)
Ctor(i) ==
    LET mode_ == IF i.mode.ok THEN ModeOf(i.mode.v) ELSE "kNone"
        M_ == IF i.M.ok THEN i.M.v ELSE 0
        N_ == IF i.N.ok THEN i.N.v ELSE 0
        S_ == IF i.S.ok THEN i.S.v ELSE 0
        ngram_counts_ == IF i.ngram_counts.ok THEN i.ngram_counts.v ELSE <<>>
        ngram_indexes_ == IF i.ngram_indexes.ok THEN i.ngram_indexes.v ELSE <<>>
        weights_ == IF i.weights.ok THEN i.weights.v ELSE <<>>
        pool_strings_ == IF i.pool_strings.ok THEN i.pool_strings.v ELSE <<>>
        \* pool_int64s is read only when pool_strings is not given
        pool_int64s == IF ~i.pool_strings.ok /\ i.pool_int64s.ok THEN i.pool_int64s.v ELSE <<>>
        loop == CtorLoop(ngram_counts_, pool_strings_, pool_int64s, 0, 0, {}, {})
    IN  IF ~i.mode.ok THEN ConfigError("mode is required")
        ELSE IF ~(mode_ # "kNone") THEN ConfigError("Unrecognized mode")
        ELSE IF ~(i.M.ok /\ M_ > 0) THEN ConfigError("Positive Attr M is required")
        ELSE IF ~(i.N.ok /\ N_ >= M_) THEN ConfigError("Positive M >= N is required")
        ELSE IF ~(i.S.ok /\ N_ >= 0) THEN ConfigError("Non-negative number of skips S is required")
        ELSE IF ~i.all.ok THEN ConfigError("Attribute all is required")
        ELSE IF ~(i.ngram_counts.ok /\ ngram_counts_ # <<>>)
        THEN ConfigError("Non-empty ngram_counts is required")
        ELSE IF ~(i.ngram_indexes.ok /\ ngram_indexes_ # <<>>)
        THEN ConfigError("Non-empty ngram_indexes is required")
        ELSE IF i.weights.ok /\ ~(Len(weights_) = Len(ngram_indexes_))
        THEN ConfigError("weights and indexes must have equal size")
        ELSE IF i.pool_strings.ok /\ ~(pool_strings_ # <<>>)
        THEN ConfigError("pool_strings must not be empty if specified")
        ELSE IF ~i.pool_strings.ok /\ ~(i.pool_int64s.ok /\ pool_int64s # <<>>)
        THEN ConfigError("non-empty pool_int64s is required if pool_strings not provided")
        ELSE IF loop.what # "" THEN ConfigError(loop.what)
        ELSE IF pool_strings_ = <<>> /\ ~(Cardinality(loop.int_set) = Len(ngram_indexes_))
        THEN ConfigError("n-grams in the pool does not match ngram_indexes size")
        ELSE IF pool_strings_ # <<>> /\ ~(Len(pool_strings_) = Len(ngram_indexes_))
        THEN ConfigError("n-grams in the pool does not match ngram_indexes size")
        ELSE [st |-> "built", what |-> "", mode_ |-> mode_, N_ |-> N_, M_ |-> M_, S_ |-> S_,
              all_ |-> (i.all.v # 0),
              ngram_counts_ |-> ngram_counts_, ngram_indexes_ |-> ngram_indexes_,
              weights_ |-> weights_, pool_strings_ |-> pool_strings_,
              str_set_ |-> loop.str_set, int_set_ |-> loop.int_set]

(***************************************************************************)
(* Ngram::Impl::GetPoolSize<T>() and Find<T>(): the int32 and int64        *)
(* kernels read int_set_, the string kernel str_set_.                      *)
(***************************************************************************)
PoolSet(im, T) == IF T = "string" THEN im.str_set_ ELSE im.int_set_

GetPoolSize(im, T) == Cardinality(PoolSet(im, T))

(***************************************************************************)
(* Ngram::Impl::IncrementCount.  The outcomes: "ok" with the slot          *)
(* incremented; "throw" when the ENFORCE fails; when an assert does not    *)
(* hold, a build with asserts aborts and a build without them goes on to   *)
(* an access outside the vector ("wild"), which leaves the vector as it    *)
(* was.  The counts of the model stay far below the uint32 range.          *)
(***************************************************************************)
IncrementCount(im, ngram_id, frequencies) ==
    IF ~(ngram_id < Len(im.ngram_indexes_))
    THEN {[kind |-> k, frequencies |-> frequencies] : k \in {"abort", "wild"}}
    ELSE LET output_idx == im.ngram_indexes_[ngram_id + 1]
         IN  IF ~(output_idx >= 0)
             THEN {[kind |-> "throw", frequencies |-> frequencies]}
             ELSE IF ~(output_idx < Len(frequencies))
             THEN {[kind |-> k, frequencies |-> frequencies] : k \in {"abort", "wild"}}
             ELSE {[kind |-> "ok", frequencies |-> [frequencies EXCEPT ![output_idx + 1] = @ + 1]]}

(***************************************************************************)
(* Ngram::OutputResult.  The body of the switch is a list of statements;   *)
(* a case label is a position in it, wherever the braces put it, and       *)
(* control runs from the label to the next break.  Statement 5, the        *)
(* kTFIDF case, sits inside the block of the kIDF case, after its break.   *)
(* output_data is a pointer into Y: the loops advance it, std::transform   *)
(* writes from it.  A float holds the small counts and weights of the      *)
(* model exactly.                                                          *)
(***************************************************************************)
Uninit == -1

\* the switch without the break that ends the kIDF case
SwitchBodyNoBreakAfterIDF == <<"TF", "break", "IDF", "skip", "TFIDF", "break", "assert(false)">>

SwitchBody == <<"TF", "break", "IDF", "break", "TFIDF", "break", "assert(false)">>

CaseLabel(mode_) ==
    IF mode_ = "kTF" THEN 1
    ELSE IF mode_ = "kIDF" THEN 3
    ELSE IF mode_ = "kTFIDF" THEN 5
    ELSE 7

\* weight i (0-based); a read past the end of weights_ is out of bounds
WeightAt(w, i) == IF i + 1 \in 1..Len(w) THEN w[i + 1] ELSE Uninit

\* writes vals at Y[ptr], Y[ptr+1], ...; a write past the end of Y is wild
WriteFrom(o, vals, advance) ==
    [o EXCEPT !.Y = [k \in 1..Len(o.Y) |->
                        IF k - o.ptr \in 1..Len(vals) THEN vals[k - o.ptr] ELSE o.Y[k]],
              !.ptr = IF advance THEN o.ptr + Len(vals) ELSE o.ptr,
              !.wild = o.wild \/ (o.ptr + Len(vals) > Len(o.Y))]

Statement(stmt, w, f, o) ==
    LET n == Len(f)
        ran == [o EXCEPT !.ran = @ \cup {stmt}]
    IN  IF stmt = "TF"
        THEN WriteFrom(ran, [i \in 1..n |-> f[i]], FALSE)
        ELSE IF stmt = "IDF"
        THEN IF w # <<>>
             THEN WriteFrom(ran, [i \in 1..n |-> IF f[i] > 0 THEN WeightAt(w, i - 1) ELSE 0], TRUE)
             ELSE WriteFrom(ran, [i \in 1..n |-> IF f[i] > 0 THEN 1 ELSE 0], TRUE)
        ELSE IF stmt = "TFIDF"
        THEN IF w # <<>>
             THEN WriteFrom(ran, [i \in 1..n |-> f[i] * WeightAt(w, i - 1)], TRUE)
             ELSE WriteFrom(ran, [i \in 1..n |-> f[i]], FALSE)
        ELSE ran

RECURSIVE RunSwitch(_, _, _, _)
RunSwitch(at, w, f, o) ==
    IF at > Len(SwitchBody) \/ SwitchBody[at] = "break"
    THEN o
    ELSE RunSwitch(at + 1, w, f, Statement(SwitchBody[at], w, f, o))

\* the outcomes of OutputResult: [kind, Y, ran, wild]
OutputResult(im, frequences) ==
    LET w == im.weights_
        o == RunSwitch(CaseLabel(im.mode_), w, frequences,
                       [Y |-> [k \in 1..Len(frequences) |-> Uninit], ptr |-> 0, ran |-> {}, wild |-> FALSE])
        \* assert(frequences.size() == w.size()) in the weighted loops, assert(false) in the default
        asserts == /\ (o.ran \cap {"IDF", "TFIDF"} # {} /\ w # <<>>) => Len(frequences) = Len(w)
                   /\ "assert(false)" \notin o.ran
    IN  {[kind |-> "ok", Y |-> o.Y, ran |-> o.ran, wild |-> o.wild]}
        \cup (IF asserts THEN {} ELSE {[kind |-> "abort", Y |-> <<>>, ran |-> o.ran, wild |-> FALSE]})

(***************************************************************************)
(* Ngram::Compute: the number of items read from the input tensor.         *)
(***************************************************************************)
RECURSIVE Product(_)
Product(dims) == IF dims = <<>> THEN 1 ELSE Head(dims) * Product(Tail(dims))

\* the number of elements the tensor holds
NumElements(dims) == Product(dims)

TotalItems(input_dims) ==
    IF input_dims = <<>> \/ (Len(input_dims) = 1 /\ input_dims[1] = 0)
    THEN 1
    ELSE Product(input_dims)

(***************************************************************************)
(* Ngram::ComputeImpl: the loops over ni, si and ngram_start.  A position  *)
(* of the scan is the next window to probe; NextWindow runs the loop       *)
(* headers from a candidate position to the next window that the loops     *)
(* reach, or to the end of the scan.  S is impl.S_ + 1.                    *)
(***************************************************************************)
RECURSIVE NextWindow(_, _, _, _, _, _)
NextWindow(N, S, total_items, ni, si, start) ==
    IF ~(ni <= N)
    THEN [end |-> TRUE, ni |-> ni, si |-> 1, start |-> 0]
    ELSE IF ni = 1
    THEN IF start # total_items
         THEN [end |-> FALSE, ni |-> ni, si |-> 1, start |-> start]
         ELSE NextWindow(N, S, total_items, ni + 1, 1, 0)
    ELSE IF ~(si <= S)
    THEN NextWindow(N, S, total_items, ni + 1, 1, 0)
    ELSE IF start < total_items /\ ~(start + si * (ni - 1) + 1 > total_items)
    THEN [end |-> FALSE, ni |-> ni, si |-> si, start |-> start]
    ELSE NextWindow(N, S, total_items, ni, si + 1, 0)

\* the tokens of the window: ngram_item runs from ngram_start in steps of si
Sample(X, ni, si, start) == [k \in 1..ni |-> X[start + si * (k - 1) + 1]]

\* the first length of the scan
LowLength(im) == IF im.all_ THEN im.M_ ELSE im.N_

(***************************************************************************)
(* A call of Compute.  T is the element type of the input tensor, dims its *)
(* shape, X the total_items tokens that the call reads from it.            *)
(***************************************************************************)
ElemTypes == {"int64", "string"}

Tokens(T) == IF T = "string" THEN StrTokens ELSE IntTokens

Garbage(T) == IF T = "string" THEN StrGarbage ELSE IntGarbage

Shapes == {<<>>} \cup {<<n>> : n \in 0..MaxInput} \cup {<<2, m>> : m \in 0..(MaxInput \div 2)}

\* what the call reads: the elements of the tensor, and past them whatever the memory holds
TensorReads(T, dims) ==
    {X \in [1..TotalItems(dims) -> Tokens(T) \cup {Garbage(T)}] :
        \A k \in 1..Len(X) : k <= NumElements(dims) => X[k] \in Tokens(T)}

IdleCall ==
    [pc |-> "idle", T |-> "int64", dims |-> <<>>, X |-> <<>>, ni |-> 0, si |-> 0, start |-> 0,
     frequencies |-> <<>>, Y |-> <<>>, ran |-> {}, wild |-> FALSE]

Running == \A c \in DOMAIN calls : calls[c].pc # "aborted"

\* Compute up to the first window: the shape, the frequency holder, the loop bounds
ComputeBegin(c) ==
    /\ Running
    /\ impl.st = "built"
    /\ calls[c].pc = "idle"
    /\ \E T \in ElemTypes, dims \in Shapes :
         \E X \in TensorReads(T, dims) :
            LET w == NextWindow(impl.N_, impl.S_ + 1, Len(X), LowLength(impl), 1, 0)
            IN  calls' = [calls EXCEPT ![c] =
                    [pc |-> IF w.end THEN "output" ELSE "scan", T |-> T, dims |-> dims, X |-> X,
                     ni |-> w.ni, si |-> w.si, start |-> w.start,
                     frequencies |-> [k \in 1..GetPoolSize(impl, T) |-> 0],
                     Y |-> <<>>, ran |-> {}, wild |-> FALSE]]
    /\ UNCHANGED <<info, impl>>

\* one window: the sample, the lookup, the count, the step to the next window
Probe(c) ==
    LET me == calls[c]
        sample == Sample(me.X, me.ni, me.si, me.start)
        hit == SetFind(PoolSet(impl, me.T), sample)
        outcomes == IF hit = {}
                    THEN {[kind |-> "miss", frequencies |-> me.frequencies]}
                    ELSE UNION {IncrementCount(impl, e.id, me.frequencies) : e \in hit}
        w == NextWindow(impl.N_, impl.S_ + 1, Len(me.X), me.ni, me.si, me.start + 1)
    IN  /\ Running
        /\ me.pc = "scan"
        /\ \E o \in outcomes :
             calls' = [calls EXCEPT ![c] =
                 IF o.kind = "throw" THEN [me EXCEPT !.pc = "threw"]
                 ELSE IF o.kind = "abort" THEN [me EXCEPT !.pc = "aborted"]
                 ELSE [me EXCEPT !.pc = IF w.end THEN "output" ELSE "scan",
                                 !.ni = w.ni, !.si = w.si, !.start = w.start,
                                 !.frequencies = o.frequencies,
                                 !.wild = me.wild \/ o.kind = "wild"]]
        /\ UNCHANGED <<info, impl>>

\* OutputResult(ctx, frequencies), the last statement of ComputeImpl
Emit(c) ==
    LET me == calls[c]
    IN  /\ Running
        /\ me.pc = "output"
        /\ \E o \in OutputResult(impl, me.frequencies) :
             calls' = [calls EXCEPT ![c] =
                 IF o.kind = "abort" THEN [me EXCEPT !.pc = "aborted", !.ran = o.ran]
                 ELSE [me EXCEPT !.pc = "done", !.Y = o.Y, !.ran = o.ran,
                                 !.wild = me.wild \/ o.wild]]
        /\ UNCHANGED <<info, impl>>

\* Compute returns, with its Status or with the exception; the call's locals are gone
Return(c) ==
    /\ Running
    /\ calls[c].pc \in {"done", "threw"}
    /\ calls' = [calls EXCEPT ![c] = IdleCall]
    /\ UNCHANGED <<info, impl>>

\* the kernel is constructed from the attributes of the node
Construct ==
    /\ impl.st = "none"
    /\ impl' = Ctor(info)
    /\ UNCHANGED <<info, calls>>

(***************************************************************************)
(* The attributes the model draws.  Two reference nodes, one with an       *)
(* int64 pool and one with a string pool, each holding a unigram and a     *)
(* bigram; every family varies some attributes of a reference node over    *)
(* all their values within the bounds, valid or not.                       *)
(***************************************************************************)
Attr(ok, v) == [ok |-> ok, v |-> v]

Iota(k) == [j \in 1..k |-> j - 1]

RefInt ==
    [mode |-> Attr(TRUE, "TFIDF"), M |-> Attr(TRUE, 1), N |-> Attr(TRUE, 2), S |-> Attr(TRUE, 1),
     all |-> Attr(TRUE, 1), ngram_counts |-> Attr(TRUE, <<0, 1>>),
     ngram_indexes |-> Attr(TRUE, <<0, 1>>), weights |-> Attr(FALSE, <<>>),
     pool_strings |-> Attr(FALSE, <<>>), pool_int64s |-> Attr(TRUE, <<1, 2, 1>>)]

RefStr ==
    [RefInt EXCEPT !.ngram_indexes = Attr(TRUE, <<0, 1, 2>>),
                   !.pool_strings = Attr(TRUE, <<"a", "b", "a">>),
                   !.pool_int64s = Attr(FALSE, <<>>)]

Refs == {RefInt, RefStr}

ModeAttrs == {Attr(TRUE, m) : m \in {"TF", "IDF", "TFIDF", "BM25"}} \cup {Attr(FALSE, "")}

IntAttrs(S) == {Attr(TRUE, v) : v \in S} \cup {Attr(FALSE, 0)}

SeqAttrs(S, n) == {Attr(TRUE, v) : v \in SeqsUpTo(S, n)} \cup {Attr(FALSE, <<>>)}

\* pool_int64s alone, or pool_strings alone with the same tokens as letters
OnePool(r, p, T) ==
    IF T = "string"
    THEN [r EXCEPT !.pool_strings = Attr(TRUE, [j \in 1..Len(p) |-> Letters[p[j]]]),
                   !.pool_int64s = Attr(FALSE, <<>>)]
    ELSE [r EXCEPT !.pool_strings = Attr(FALSE, <<>>), !.pool_int64s = Attr(TRUE, p)]

\* mode, M, N, S, all
ScalarFamily(i) ==
    \E r \in Refs, mode \in ModeAttrs, M \in IntAttrs(0..MaxLen), N \in IntAttrs(0..MaxLen),
       S \in IntAttrs(-1..MaxSkip), all \in IntAttrs(0..1) :
        i = [r EXCEPT !.mode = mode, !.M = M, !.N = N, !.S = S, !.all = all]

\* ngram_counts, any values, over a pool of each length; ngram_indexes 0, 1, ..., k-1
OffsetFamily(i) ==
    \E T \in ElemTypes, n \in 0..MaxPool, k \in 0..MaxPool,
       nc \in SeqAttrs(-1..(MaxPool + 1), MaxLen) :
        i = [OnePool(RefInt, [j \in 1..n |-> ((j - 1) % MaxToken) + 1], T)
                EXCEPT !.ngram_counts = nc, !.ngram_indexes = Attr(TRUE, Iota(k))]

\* the chunks that offsets nc cut from a pool of n tokens: length L from nc[L] to the next offset
RECURSIVE ChunkCount(_, _, _)
ChunkCount(nc, n, L) ==
    IF L > Len(nc)
    THEN 0
    ELSE Max(0, (IF L < Len(nc) THEN nc[L + 1] ELSE n) - nc[L]) \div L + ChunkCount(nc, n, L + 1)

\* every pool, cut at offsets in order; ngram_indexes 0, 1, ..., k-1, as long as the pool
\* or as the number of chunks
ContentFamily(i) ==
    \E T \in ElemTypes, p \in SeqsUpTo(IntTokens, MaxPool),
       nc \in {s \in SeqsUpTo(0..MaxPool, MaxLen) :
                 s # <<>> /\ \A j \in 1..(Len(s) - 1) : s[j] <= s[j + 1]} :
        \E k \in {Len(p), ChunkCount(nc, Len(p), 1)} :
            i = [OnePool(RefInt, p, T)
                    EXCEPT !.ngram_counts = Attr(TRUE, nc), !.ngram_indexes = Attr(TRUE, Iota(k))]

\* ngram_indexes
SlotFamily(i) ==
    \E r \in Refs, ni \in SeqAttrs(-1..MaxSlot, MaxPool - 1) :
        i = [r EXCEPT !.ngram_indexes = ni]

\* mode and weights
WeightFamily(i) ==
    \E r \in Refs, mode \in ModeAttrs, w \in SeqAttrs(1..MaxWeight, MaxPool - 1) :
        i = [r EXCEPT !.mode = mode, !.weights = w]

\* which pools are given
PoolFamily(i) ==
    \E r \in Refs,
       ps \in {Attr(FALSE, <<>>), Attr(TRUE, <<>>), RefStr.pool_strings},
       pi \in {Attr(FALSE, <<>>), Attr(TRUE, <<>>), RefInt.pool_int64s} :
        i = [r EXCEPT !.pool_strings = ps, !.pool_int64s = pi]

Init ==
    /\ \/ ScalarFamily(info)
       \/ OffsetFamily(info)
       \/ ContentFamily(info)
       \/ SlotFamily(info)
       \/ WeightFamily(info)
       \/ PoolFamily(info)
    /\ impl = NoImpl("none", "")
    /\ calls = [c \in {1} |-> IdleCall]

Next ==
    \/ Construct
    \/ \E c \in DOMAIN calls : ComputeBegin(c)
    \/ \E c \in DOMAIN calls : Probe(c)
    \/ \E c \in DOMAIN calls : Emit(c)
    \/ \E c \in DOMAIN calls : Return(c)

Spec == Init /\ [][Next]_vars

\* the construction alone
SpecCtor == Init /\ [][Construct]_vars

(***************************************************************************)
(* OutputResult on its own: a kernel in each mode, with and without        *)
(* weights, about to encode a frequency vector.  OutputResult reads only   *)
(* mode_ and weights_ of the kernel.  weights_ is empty or as long as      *)
(* ngram_indexes_, so never shorter than the frequency vector.             *)
(***************************************************************************)
InitEncode ==
    /\ info = RefInt
    /\ \E mode_ \in {"kTF", "kIDF", "kTFIDF"}, f \in SeqsUpTo(0..MaxInput, MaxPool - 2) :
         \E w \in {<<>>} \cup [1..Len(f) -> 1..MaxWeight] \cup [1..(Len(f) + 1) -> 1..MaxWeight] :
            /\ impl = [NoImpl("built", "") EXCEPT !.mode_ = mode_, !.weights_ = w]
            /\ calls = [c \in {1} |-> [IdleCall EXCEPT !.pc = "output", !.frequencies = f]]

SpecEncode == InitEncode /\ [][\E c \in DOMAIN calls : Emit(c)]_vars

(***************************************************************************)
(* Two calls of Compute at once on one kernel.                             *)
(***************************************************************************)
InitTwoCalls ==
    /\ \E ni \in {<<0, 1>>, <<0, 2>>} : info = [RefInt EXCEPT !.ngram_indexes = Attr(TRUE, ni)]
    /\ impl = NoImpl("none", "")
    /\ calls = [c \in {1, 2} |-> IdleCall]

SpecTwoCalls == InitTwoCalls /\ [][Next]_vars

(***************************************************************************)
(* What the claims speak of, stated from the attributes of the node.       *)
(***************************************************************************)
Constructed == impl.st # "none"

Built == impl.st = "built"

Failed == impl.st = "ConfigError"

\* the pool the dictionary is built from, as 0-based offsets into it
UsedPool == IF info.pool_strings.ok THEN info.pool_strings.v ELSE info.pool_int64s.v

PoolType == IF info.pool_strings.ok THEN "string" ELSE "int64"

Dictionary == PoolSet(impl, PoolType)

lengthOffsets == info.ngram_counts.v

outputSlotOf == info.ngram_indexes.v

\* the segment of length L: [SegStart(L), SegEnd(L))
SegStart(L) == lengthOffsets[L]

SegEnd(L) == IF L < Len(lengthOffsets) THEN lengthOffsets[L + 1] ELSE Len(UsedPool)

SegmentWellFormed(L) ==
    /\ 0 <= SegStart(L) /\ SegStart(L) <= SegEnd(L) /\ SegEnd(L) <= Len(UsedPool)
    /\ (SegEnd(L) - SegStart(L)) % L = 0

\* the chunks of a well-formed segment, numbered from 0 in pool order
NumChunks(L) == (SegEnd(L) - SegStart(L)) \div L

Chunk(L, j) == [k \in 1..L |-> UsedPool[SegStart(L) + j * L + k]]

MaxOf(S) == CHOOSE m \in S : \A x \in S : x <= m

\* the number of chunks of the segments shorter than L
RECURSIVE ChunksBefore(_)
ChunksBefore(L) == IF L <= 1 THEN 0 ELSE ChunksBefore(L - 1) + NumChunks(L - 1)

\* the windows of an input of n tokens: length L, stride, start position p (0-based)
Windows(n) ==
    LET low == IF info.all.v # 0 THEN info.M.v ELSE info.N.v
    IN  {<<L, 1, q>> : L \in {l \in low..info.N.v : l = 1}, q \in 0..(n - 1)}
        \cup
        {w \in (low..info.N.v) \X (1..(info.S.v + 1)) \X (0..(n - 1)) :
            w[1] # 1 /\ w[3] + w[2] * (w[1] - 1) + 1 <= n}

WindowTokens(X, w) == [k \in 1..w[1] |-> X[w[3] + w[2] * (k - 1) + 1]]

\* the windows of X that hold the content of an entry whose output slot is s
ExpectedCount(T, X, s) ==
    Cardinality({w \in Windows(Len(X)) :
        \E e \in PoolSet(impl, T) : e.items = WindowTokens(X, w) /\ outputSlotOf[e.id + 1] = s})

SlotsOf(T) == {outputSlotOf[e.id + 1] : e \in PoolSet(impl, T)}

FrequencyAt(f, s) == IF s + 1 \in DOMAIN f THEN f[s + 1] ELSE 0

Scanned(c) == calls[c].pc \in {"output", "done"}

(***************************************************************************)
(* C1: after extract, the frequency at output slot s is the number of      *)
(* enumerated windows (every length from lowLength to maxLength; one per   *)
(* position for length 1; one per stride and fitting start otherwise)      *)
(* whose tokens are the content of a dictionary entry with output slot s.  *)
(***************************************************************************)
C1_FrequencyCountsWindows ==
    \A c \in DOMAIN calls :
        Scanned(c) =>
            \A s \in SlotsOf(calls[c].T) \cup 0..(Len(calls[c].frequencies) - 1) :
                FrequencyAt(calls[c].frequencies, s) = ExpectedCount(calls[c].T, calls[c].X, s)

\* the counts are those of the windows whenever every slot of the dictionary lies in the vector
SlotsFit(c) == \A s \in SlotsOf(calls[c].T) : s \in 0..(Len(calls[c].frequencies) - 1)

FrequencyCountsWindowsWhenSlotsFit ==
    \A c \in DOMAIN calls : (Scanned(c) /\ SlotsFit(c)) => C1_FrequencyCountsWindows

(***************************************************************************)
(* C2: encode returns a vector as long as the frequency vector, with       *)
(* count[i] in mode TF; in mode IDF weight[i] (1.0 without weights) where  *)
(* count[i] > 0 and 0 elsewhere; in mode TFIDF count[i] * weight[i]        *)
(* (count[i] without weights); the IDF case never runs the TFIDF code and  *)
(* the TFIDF case never runs the IDF code.                                 *)
(***************************************************************************)
EncodeTable(mode_, w, count, i) ==
    IF mode_ = "kTF" THEN count
    ELSE IF mode_ = "kIDF"
    THEN IF w # <<>> THEN (IF count > 0 THEN w[i] ELSE 0) ELSE (IF count > 0 THEN 1 ELSE 0)
    ELSE IF w # <<>> THEN count * w[i] ELSE count

C2_EncodeByMode ==
    \A c \in DOMAIN calls :
        LET f == calls[c].frequencies
            w == impl.weights_
        IN  /\ calls[c].pc = "done" =>
                /\ Len(calls[c].Y) = Len(f)
                /\ \A i \in 1..Len(f) : calls[c].Y[i] = EncodeTable(impl.mode_, w, f[i], i)
                /\ impl.mode_ = "kIDF" => "TFIDF" \notin calls[c].ran
                /\ impl.mode_ = "kTFIDF" => "IDF" \notin calls[c].ran
                /\ impl.mode_ = "kTF" => calls[c].ran = {"TF"}
                /\ ~calls[c].wild
            /\ (w = <<>> \/ Len(w) = Len(f)) => calls[c].pc # "aborted"

\* a weighted IDF encoding of a count above 1 with a weight other than 1
C2_Witness ==
    \E c \in DOMAIN calls :
        /\ calls[c].pc = "done" /\ impl.mode_ = "kIDF" /\ impl.weights_ # <<>>
        /\ \E i \in 1..Len(calls[c].Y) :
              calls[c].frequencies[i] > 1 /\ impl.weights_[i] > 1 /\ calls[c].Y[i] = impl.weights_[i]

(***************************************************************************)
(* C3: in every accepted configuration the dictionary has                  *)
(* length(outputSlotOf) entries, with an integer pool and with a string    *)
(* pool alike; a different number of entries fails the construction.       *)
(***************************************************************************)
C3_DictionarySizeIsSlotCount ==
    Built => Cardinality(Dictionary) = Len(outputSlotOf)

(***************************************************************************)
(* C4: the frequency vector of extract and the float output vector both    *)
(* have length max(outputSlotOf) + 1 (stated for the inputs whose tokens   *)
(* are of the pool's type).                                                *)
(***************************************************************************)
C4_VectorLengthIsMaxSlotPlusOne ==
    \A c \in DOMAIN calls :
        calls[c].T = PoolType =>
            /\ calls[c].pc \in {"scan", "output", "done"} =>
                  Len(calls[c].frequencies) = MaxOf(Range(outputSlotOf)) + 1
            /\ calls[c].pc = "done" => Len(calls[c].Y) = MaxOf(Range(outputSlotOf)) + 1

(***************************************************************************)
(* C5: a negative skipCount fails the construction: no dictionary, and no  *)
(* extraction can run.                                                     *)
(***************************************************************************)
C5_NegativeSkipFails ==
    (Constructed /\ info.S.ok /\ info.S.v < 0) =>
        /\ Failed
        /\ impl.int_set_ = {} /\ impl.str_set_ = {}
        /\ \A c \in DOMAIN calls : calls[c].pc = "idle" /\ ~ENABLED ComputeBegin(c)

(***************************************************************************)
(* C6: construction succeeds only when exactly one of stringPool and       *)
(* integerPool is supplied, and non-empty.                                 *)
(***************************************************************************)
C6_ExactlyOnePool ==
    Built =>
        /\ info.pool_strings.ok # info.pool_int64s.ok
        /\ UsedPool # <<>>

(***************************************************************************)
(* C7: two chunks of one length segment with the same tokens in the same   *)
(* order fail the construction, wherever they sit in the segment; chunks   *)
(* with the same tokens in another order are no duplicates: the duplicate  *)
(* error needs two identical chunks, and an accepted configuration has an  *)
(* entry for every chunk.                                                  *)
(***************************************************************************)
IdenticalChunks(L, j1, j2) ==
    /\ SegmentWellFormed(L)
    /\ j1 \in 0..(NumChunks(L) - 1) /\ j2 \in 0..(NumChunks(L) - 1) /\ j1 # j2
    /\ Chunk(L, j1) = Chunk(L, j2)

SomeIdenticalChunks ==
    \E L \in 1..Len(lengthOffsets) : \E j1, j2 \in 0..MaxPool : IdenticalChunks(L, j1, j2)

DuplicateError ==
    Failed /\ impl.what \in {"pool_int64s duplicate n-grams detected",
                             "poll_strings duplicate n-grams detected"}

C7_DuplicateChunksFail ==
    Constructed =>
        /\ SomeIdenticalChunks => Failed
        /\ DuplicateError => SomeIdenticalChunks
        /\ Built => \A L \in 1..Len(lengthOffsets) :
                       /\ SegmentWellFormed(L)
                       /\ \A j \in 0..(NumChunks(L) - 1) :
                             \E e \in Dictionary : e.items = Chunk(L, j)

\* the duplicate error for two identical chunks with another chunk between them
C7_Witness ==
    /\ DuplicateError
    /\ \E L \in 1..Len(lengthOffsets) : \E j1, j2 \in 0..MaxPool :
          IdenticalChunks(L, j1, j2) /\ j2 > j1 + 1 /\ Chunk(L, j1 + 1) # Chunk(L, j1)

(***************************************************************************)
(* C8: a segment with a bound outside [0, poolSize] (a negative offset, an *)
(* offset below the previous one) or with a size that is no multiple of    *)
(* its length fails the construction; the failure leaves no dictionary,    *)
(* and no extraction has run or can run.                                   *)
(***************************************************************************)
SegmentBad(L) ==
    \/ SegStart(L) < 0 \/ SegStart(L) > Len(UsedPool)
    \/ SegEnd(L) < 0 \/ SegEnd(L) > Len(UsedPool)
    \/ SegEnd(L) < SegStart(L)
    \/ (SegEnd(L) - SegStart(L)) % L # 0

C8_BadSegmentFails ==
    Constructed =>
        /\ (\E L \in 1..Len(lengthOffsets) : SegmentBad(L)) => Failed
        /\ Failed =>
              /\ impl.int_set_ = {} /\ impl.str_set_ = {}
              /\ \A c \in DOMAIN calls : calls[c].pc = "idle" /\ ~ENABLED ComputeBegin(c)

\* the construction fails on a negative offset, the pool and the other attributes being given
C8_Witness ==
    /\ Failed /\ impl.what = "n-gram counts out of bounds"
    /\ UsedPool # <<>>
    /\ \E L \in 1..Len(lengthOffsets) : SegStart(L) < 0

(***************************************************************************)
(* A call of Compute run on its own from its input to its result: the      *)
(* frequency vector after the scan and the vector that OutputResult        *)
(* writes.  A count that IncrementCount cannot make leaves the vector as   *)
(* it is.                                                                  *)
(***************************************************************************)
RECURSIVE AloneScan(_, _, _, _)
AloneScan(T, X, w, f) ==
    IF w.end
    THEN f
    ELSE LET hit == SetFind(PoolSet(impl, T), Sample(X, w.ni, w.si, w.start))
             counted == UNION {{o.frequencies : o \in {r \in IncrementCount(impl, e.id, f) : r.kind = "ok"}} : e \in hit}
             g == IF counted = {} THEN f ELSE CHOOSE x \in counted : TRUE
         IN  AloneScan(T, X, NextWindow(impl.N_, impl.S_ + 1, Len(X), w.ni, w.si, w.start + 1), g)

AloneFrequencies(T, X) ==
    AloneScan(T, X, NextWindow(impl.N_, impl.S_ + 1, Len(X), LowLength(impl), 1, 0),
              [k \in 1..GetPoolSize(impl, T) |-> 0])

AloneOutput(T, X) ==
    (CHOOSE o \in OutputResult(impl, AloneFrequencies(T, X)) : o.kind = "ok").Y

(***************************************************************************)
(* C9: once the kernel is built no call changes the configuration, the     *)
(* dictionary or the weights; calls interleaved in any order each end with *)
(* the frequency and output vector they produce alone; and a call writes   *)
(* only its own frequency vector, scratch and output buffer.               *)
(***************************************************************************)
C9_CallsShareNothing ==
    [][/\ Built => (impl' = impl /\ info' = info)
       /\ \A c \in DOMAIN calls :
             /\ ~calls'[c].wild
             /\ calls'[c].pc = "done" =>
                   /\ calls'[c].frequencies = AloneFrequencies(calls'[c].T, calls'[c].X)
                   /\ calls'[c].Y = AloneOutput(calls'[c].T, calls'[c].X)]_vars

\* the same, but for the writes outside the call's own vectors
CallsIsolatedButForWildWrites ==
    [][/\ Built => (impl' = impl /\ info' = info)
       /\ \A c \in DOMAIN calls :
             calls'[c].pc = "done" =>
                /\ calls'[c].frequencies = AloneFrequencies(calls'[c].T, calls'[c].X)
                /\ calls'[c].Y = AloneOutput(calls'[c].T, calls'[c].X)]_vars

(***************************************************************************)
(* C10: the ids of a built dictionary are 0, 1, ..., size-1, in increasing *)
(* order of length and in pool order within a length, an empty segment     *)
(* taking no id; and a hit on the entry with id k increments the slot      *)
(* outputSlotOf[k].                                                        *)
(***************************************************************************)
IdsInPoolOrder ==
    Built =>
        /\ {e.id : e \in Dictionary} = 0..(Cardinality(Dictionary) - 1)
        /\ \A L \in 1..Len(lengthOffsets) : \A j \in 0..(NumChunks(L) - 1) :
              \E e \in Dictionary : e.items = Chunk(L, j) /\ e.id = ChunksBefore(L) + j

HitIncrementsItsSlot(c) ==
    LET me == calls[c]
        hit == SetFind(PoolSet(impl, me.T), Sample(me.X, me.ni, me.si, me.start))
    IN  (me.pc = "scan" /\ calls'[c] # me /\ hit # {}) =>
            \E e \in hit :
                LET slot == outputSlotOf[e.id + 1]
                IN  /\ slot + 1 \in DOMAIN me.frequencies
                    /\ calls'[c].frequencies = [me.frequencies EXCEPT ![slot + 1] = @ + 1]

C10_IdsAndSlots ==
    [][IdsInPoolOrder' /\ \A c \in DOMAIN calls : HitIncrementsItsSlot(c)]_vars

\* the same, for the hits whose slot lies in the frequency vector
HitInVectorIncrementsItsSlot ==
    [][\A c \in DOMAIN calls :
          LET me == calls[c]
              hit == SetFind(PoolSet(impl, me.T), Sample(me.X, me.ni, me.si, me.start))
          IN  (me.pc = "scan" /\ hit # {} /\ \A e \in hit : outputSlotOf[e.id + 1] + 1 \in DOMAIN me.frequencies)
                 => HitIncrementsItsSlot(c)]_vars

(***************************************************************************)
(* C11: an input of scalar shape or of shape [0] is processed as a         *)
(* sequence of exactly one token; every other shape as a sequence as long  *)
(* as the product of its dimensions; and the call reads the tokens of the  *)
(* tensor only, none beyond them.                                          *)
(***************************************************************************)
\* the call has its input: it scans, encodes or has finished
Reading(c) == calls[c].pc \in {"scan", "output", "done"}

\* the positions (1-based) of the input that the window at hand reads
WindowReads(c) ==
    {calls[c].start + calls[c].si * (k - 1) + 1 : k \in 1..calls[c].ni}

SequenceLengthByShape(c) ==
    Len(calls[c].X) = IF calls[c].dims = <<>> \/ calls[c].dims = <<0>>
                      THEN 1
                      ELSE NumElements(calls[c].dims)

ShapeToSequenceButForEmptyShape ==
    \A c \in DOMAIN calls :
        /\ Reading(c) => SequenceLengthByShape(c)
        /\ (calls[c].pc = "scan" /\ calls[c].dims # <<0>>) =>
               \A k \in WindowReads(c) : k <= NumElements(calls[c].dims)

(***************************************************************************)
(* C12: every hit of a call increments an index inside the frequency       *)
(* vector: its id is below length(outputSlotOf), and outputSlotOf[id] is   *)
(* at least 0 and below the length of the vector; IncrementCount never     *)
(* fails.                                                                  *)
(***************************************************************************)
\* the entries that the window at hand hits
HitsAt(c) ==
    SetFind(PoolSet(impl, calls[c].T),
            Sample(calls[c].X, calls[c].ni, calls[c].si, calls[c].start))

HitIdBelowSlotCount ==
    \A c \in DOMAIN calls :
        calls[c].pc = "scan" => \A e \in HitsAt(c) : e.id < Len(outputSlotOf)

C12_HitsStayInVector ==
    /\ HitIdBelowSlotCount
    /\ \A c \in DOMAIN calls :
          /\ calls[c].pc = "scan" =>
                \A e \in HitsAt(c) :
                    /\ outputSlotOf[e.id + 1] >= 0
                    /\ outputSlotOf[e.id + 1] < Len(calls[c].frequencies)
          /\ calls[c].pc # "threw"

====
